---- MODULE Spec2Model ----
(***************************************************************************)
(* CleanSky backend (src/main.py): the TTL cache, fetch_and_cache, the     *)
(* /air-quality aggregation, /cities, /weather and the /forecast fallback. *)
(*                                                                         *)
(* Time is in whole seconds on one monotonic clock that serves both        *)
(* datetime.now() and datetime.utcnow().  An endpoint is run by a worker   *)
(* thread; an upstream HTTP call is one step to send it and one step to    *)
(* receive its reply, which arrives at most `timeout` seconds after it was *)
(* sent.  An upstream body either does not parse as JSON or is JSON of the *)
(* shape the code reads.  The freshness test and the read of the cached    *)
(* payload (lines 57-58) are one step.                                     *)
(*                                                                         *)
(* Specifications:                                                         *)
(*   SpecFetch     fetch_and_cache, requests served one at a time          *)
(*   SpecAgg       air_quality, requests served one at a time              *)
(*   SpecForecast  forecast, started at several times of day               *)
(*   Spec          every endpoint, on a few upstream answers each          *)
(*   SpecCities    get_cities on every short list of location records      *)
(*   SpecConc      fetch_and_cache, two requests in flight at once         *)
(*   SpecAggWide   air_quality on a lookup result of six stations          *)
(* The variables hist and the frame fields pre, upcalls, lookups, calls,   *)
(* reply and outcome record history for the properties; no action reads    *)
(* them to decide what the program does.                                   *)
(***************************************************************************)
EXTENDS Integers, Sequences, FiniteSets, TLC

VARIABLES CACHE, clock, ticks, pc, frame, ret, hist

vars == <<CACHE, clock, ticks, pc, frame, ret, hist>>

(* ------------------------------ constants ------------------------------ *)

CACHE_TTL == 3600

FETCH_TIMEOUT == 10

WEATHER_TIMEOUT == 8

CURRENT_TEMP_TIMEOUT == 6

DEFAULT_TEMP == 20

MAX_FORECAST_DAYS == 16

SECONDS_PER_DAY == 86400

(* bound on the day counts whose random draws are enumerated in full *)
MaxDays == 2

(* bound on the number of clock advances in one behaviour *)
MaxTicks == 2

(* the clock advances by the call timeout, by TTL, or by their difference *)
Steps == {FETCH_TIMEOUT, CACHE_TTL - FETCH_TIMEOUT, CACHE_TTL}

Threads == {"t1", "t2"}

(* the thread that serves the requests when they come one at a time *)
Main == "t1"

None == "None"

(* ------------------------------ dictionaries --------------------------- *)

EmptyDict == [k \in {} |-> None]

DictPut(d, k, v) == [x \in (DOMAIN d) \cup {k} |-> IF x = k THEN v ELSE d[x]]

(* ------------------------------ upstream ------------------------------- *)

Payloads == {"d1", "d2"}

(* what requests.get can produce: a transport exception, or a response with *)
(* a status and a body that parses as JSON or does not                      *)
FailedReplies ==
    { [exc |-> e, status |-> 0, parses |-> FALSE, body |-> None] : e \in {"ConnectionError", "Timeout"} }
    \cup { [exc |-> None, status |-> 500, parses |-> FALSE, body |-> None],
           [exc |-> None, status |-> 500, parses |-> TRUE, body |-> None],
           [exc |-> None, status |-> 200, parses |-> FALSE, body |-> None] }

Ok(b) == [exc |-> None, status |-> 200, parses |-> TRUE, body |-> b]

Replies == FailedReplies \cup { Ok(b) : b \in Payloads }

(* no upstream call was made *)
NoReply == [exc |-> None, status |-> 0, parses |-> FALSE, body |-> None]

(* a handler that omits raise_for_status *)
RaisedByWithoutStatusCheck(reply) ==
    IF reply.exc # None THEN reply.exc
    ELSE IF ~reply.parses THEN "JSONDecodeError"
    ELSE None

(* requests.get, raise_for_status and json in turn: the exception raised, or None *)
RaisedBy(reply) ==
    IF reply.exc # None THEN reply.exc
    ELSE IF reply.status >= 400 THEN "HTTPError"
    ELSE IF ~reply.parses THEN "JSONDecodeError"
    ELSE None

(* a handler that catches transport and status errors only *)
IsTransportOrStatusError(e) ==
    e \in {"ConnectionError", "Timeout", "HTTPError"}

(* the exceptions an `except requests.RequestException` clause catches *)
IsRequestException(e) ==
    e \in {"ConnectionError", "Timeout", "HTTPError", "JSONDecodeError"}

(* ------------------------------ cache ---------------------------------- *)

(* a freshness test that still serves an entry exactly TTL seconds old *)
IsFreshInclusive(cache, key, now) ==
    key \in DOMAIN cache /\ (now - cache[key].timestamp) <= CACHE_TTL

IsFresh(cache, key, now) ==
    key \in DOMAIN cache /\ (now - cache[key].timestamp) < CACHE_TTL

(* ------------------------------ threads -------------------------------- *)

IdleFrame == [op |-> "none"]

NoRet == [kind |-> "none"]

Returned(v) == [kind |-> "return", status |-> 200, body |-> v]

Raised(e) == [kind |-> "raise", exc |-> e]

Waiting == {"fetch_wait", "lookup_wait", "latest_wait", "weather_wait", "forecast_wait", "temp_wait"}

(* a reply arrives within the timeout of its call *)
Tick(d) ==
    /\ ticks < MaxTicks
    /\ \A p \in Threads : pc[p] \in Waiting => clock + d <= frame[p].sent + frame[p].timeout
    /\ clock' = clock + d
    /\ ticks' = ticks + 1
    /\ UNCHANGED <<CACHE, pc, frame, ret, hist>>

(* the caller picks up the response and the thread is free again *)
Finish(p) ==
    /\ pc[p] = "done"
    /\ pc' = [pc EXCEPT ![p] = "idle"]
    /\ frame' = [frame EXCEPT ![p] = IdleFrame]
    /\ ret' = [ret EXCEPT ![p] = NoRet]
    /\ UNCHANGED <<CACHE, clock, ticks, hist>>

(* History kept beside the program state, per cache key: when the key was  *)
(* last written (at), how often (n), and, after a failed upstream call, the *)
(* number of writes the failed call had seen when it started (failn).       *)
NoHist == [at |-> 0, n |-> 0, failn |-> -1]

HistOf(key) == IF key \in DOMAIN hist THEN hist[key] ELSE NoHist

(* what the history records about a key when a call for it starts *)
Snapshot(key) ==
    [had |-> key \in DOMAIN CACHE,
     age |-> clock - HistOf(key).at,
     data |-> IF key \in DOMAIN CACHE THEN CACHE[key].data ELSE None,
     nputs |-> HistOf(key).n,
     afterfail |-> HistOf(key).failn = HistOf(key).n]

RecordPut(key) ==
    DictPut(hist, key, [HistOf(key) EXCEPT !.at = clock, !.n = @ + 1])

RecordFailure(key, seen) ==
    DictPut(hist, key, [HistOf(key) EXCEPT !.failn = seen])

(* ------------------------------ fetch_and_cache ------------------------ *)

(* the calls the endpoints make: /countries, /measurements with two limits, and a bare url *)
Requests ==
    { [url |-> "u1", cache_key |-> "k1", fallback_data |-> "fbA"],
      [url |-> "u2", cache_key |-> "k1", fallback_data |-> "fbB"],
      [url |-> "u3", cache_key |-> None, fallback_data |-> "fbA"] }

Fallbacks == { r.fallback_data : r \in Requests }

CacheKeyOf(url, cache_key) == IF cache_key # None THEN cache_key ELSE url

FetchStart(p, req) ==
    /\ pc[p] = "idle"
    /\ LET key == CacheKeyOf(req.url, req.cache_key)
           f == [op |-> "fetch_and_cache", url |-> req.url, cache_key |-> key,
                 fallback_data |-> req.fallback_data, now |-> clock,
                 sent |-> clock, timeout |-> FETCH_TIMEOUT,
                 upcalls |-> 0, outcome |-> "hit", reply |-> NoReply, pre |-> Snapshot(key)]
       IN IF IsFresh(CACHE, key, clock)
          THEN /\ pc' = [pc EXCEPT ![p] = "done"]
               /\ frame' = [frame EXCEPT ![p] = f]
               /\ ret' = [ret EXCEPT ![p] = Returned(CACHE[key].data)]
          ELSE /\ pc' = [pc EXCEPT ![p] = "fetch_wait"]
               /\ frame' = [frame EXCEPT ![p] = [f EXCEPT !.upcalls = 1, !.outcome = "pending"]]
               /\ ret' = ret
    /\ UNCHANGED <<CACHE, clock, ticks, hist>>

(* an except branch that stores the fallback it returns *)
CacheFallbackStored(cache, key, fallback, now) ==
    DictPut(cache, key, [data |-> fallback, timestamp |-> now])

(* the cache after the except branch has run *)
CacheAfterFailure(cache, key, fallback, now) == cache

(* a store that keeps the later of the old and the new timestamp *)
CachePutNewerStamp(cache, key, data, now) ==
    DictPut(cache, key,
            [data |-> data,
             timestamp |-> IF key \in DOMAIN cache /\ cache[key].timestamp > now
                           THEN cache[key].timestamp ELSE now])

(* CACHE[cache_key] = {"data": data, "timestamp": now}: one store of a new entry *)
CachePut(cache, key, data, now) ==
    DictPut(cache, key, [data |-> data, timestamp |-> now])

(* an except branch that serves the expired entry when there is one *)
StaleOnFailure(cache, key, fallback) ==
    IF key \in DOMAIN cache THEN cache[key].data ELSE fallback

(* return fallback_data *)
ValueOnFailure(cache, key, fallback) == fallback

FetchReply(p, reply) ==
    /\ pc[p] = "fetch_wait"
    /\ LET f == frame[p]
           e == RaisedBy(reply)
       IN IF e = None
          THEN /\ CACHE' = CachePut(CACHE, f.cache_key, reply.body, f.now)
               /\ hist' = RecordPut(f.cache_key)
               /\ frame' = [frame EXCEPT ![p] = [f EXCEPT !.outcome = "ok", !.reply = reply]]
               /\ ret' = [ret EXCEPT ![p] = Returned(reply.body)]
          ELSE /\ CACHE' = IF IsRequestException(e)
                           THEN CacheAfterFailure(CACHE, f.cache_key, f.fallback_data, f.now)
                           ELSE CACHE
               /\ hist' = RecordFailure(f.cache_key, f.pre.nputs)
               /\ frame' = [frame EXCEPT ![p] = [f EXCEPT !.outcome = "fail", !.reply = reply]]
               /\ ret' = [ret EXCEPT ![p] =
                            IF IsRequestException(e)
                            THEN Returned(ValueOnFailure(CACHE, f.cache_key, f.fallback_data))
                            ELSE Raised(e)]
    /\ pc' = [pc EXCEPT ![p] = "done"]
    /\ UNCHANGED <<clock, ticks>>

(* ------------------------------ air_quality --------------------------- *)

Cities == {"Tashkent"}

CityKey(city) == "air_quality_" \o city

(* location descriptors of a lookup result: named by "name", by "location", or by neither *)
LocA == [name |-> "s1", location |-> None]

LocB == [name |-> None, location |-> "s2"]

LocC == [name |-> "s3", location |-> "s3-alt"]

LocNameless == [name |-> None, location |-> None]

(* the station lists the lookup call returns *)
LocLists ==
    { <<>>, <<LocNameless>>, <<LocA>>, <<LocA, LocB>>, <<LocA, LocA>>,
      <<LocA, LocNameless, LocB>>, <<LocA, LocB, LocC>> }

LookupReplies == FailedReplies \cup { Ok(l) : l \in LocLists }

(* station records of a latest-readings result *)
Meas(p, v) == [parameter |-> p, value |-> v]

RecA == [id |-> "rA", measurements |-> << Meas("pm25", 10), Meas("no2", 4) >>]

RecB == [id |-> "rB", measurements |-> << Meas("pm25", 20) >>]

RecC == [id |-> "rC", measurements |-> << Meas("pm10", 7), Meas("pm25", 10) >>]

LatestResults == { <<>>, <<RecA>>, <<RecB, RecC>> }

LatestReplies == FailedReplies \cup { Ok(r) : r \in LatestResults }

(* loc.get("name") or loc.get("location") *)
LocationName(loc) == IF loc.name # None THEN loc.name ELSE loc.location

(* the index of the first location at or after i that has a name; Len + 1 when none *)
RECURSIVE NextNamed(_, _)
NextNamed(loc_data, i) ==
    IF i > Len(loc_data) THEN i
    ELSE IF LocationName(loc_data[i]) # None THEN i
    ELSE NextNamed(loc_data, i + 1)

(* an accumulator that keeps only the last value reported for a parameter *)
RECURSIVE AddMeasurementsOverwrite(_, _)
AddMeasurementsOverwrite(values, ms) ==
    IF ms = <<>> THEN values
    ELSE LET m == Head(ms)
         IN AddMeasurementsOverwrite(DictPut(values, m.parameter, <<m.value>>), Tail(ms))

(* aggregated_values.setdefault(param, []).append(value), for each measurement in turn *)
RECURSIVE AddMeasurements(_, _)
AddMeasurements(values, ms) ==
    IF ms = <<>> THEN values
    ELSE LET m == Head(ms)
             old == IF m.parameter \in DOMAIN values THEN values[m.parameter] ELSE <<>>
         IN AddMeasurements(DictPut(values, m.parameter, Append(old, m.value)), Tail(ms))

(* a loop that puts each station at the front of the list *)
RECURSIVE AddStationsAtFront(_, _)
AddStationsAtFront(acc, latest_data) ==
    IF latest_data = <<>> THEN acc
    ELSE LET station == Head(latest_data)
         IN AddStationsAtFront([all_stations |-> <<station>> \o acc.all_stations,
                                aggregated_values |-> AddMeasurements(acc.aggregated_values,
                                                                      station.measurements)],
                               Tail(latest_data))

(* the loop over latest_data: the stations collected and the values accumulated *)
RECURSIVE AddStations(_, _)
AddStations(acc, latest_data) ==
    IF latest_data = <<>> THEN acc
    ELSE LET station == Head(latest_data)
         IN AddStations([all_stations |-> Append(acc.all_stations, station),
                         aggregated_values |-> AddMeasurements(acc.aggregated_values,
                                                               station.measurements)],
                        Tail(latest_data))

RECURSIVE Sum(_)
Sum(vals) == IF vals = <<>> THEN 0 ELSE Head(vals) + Sum(Tail(vals))

RECURSIVE Gcd(_, _)
Gcd(a, b) == IF b = 0 THEN a ELSE Gcd(b, a % b)

(* the quotient n / d as a fraction in lowest terms *)
Quotient(n, d) == LET g == Gcd(n, d) IN [num |-> n \div g, den |-> d \div g]

(* {param: sum(vals) / len(vals) for param, vals in aggregated_values.items() if vals} *)
Averages(values) ==
    [param \in {q \in DOMAIN values : values[q] # <<>>} |->
        Quotient(Sum(values[param]), Len(values[param]))]

Whole(n) == [num |-> n, den |-> 1]

DummyAggregated ==
    [param \in {"pm25", "pm10", "no2"} |->
        IF param = "pm25" THEN Whole(20) ELSE IF param = "pm10" THEN Whole(35) ELSE Whole(15)]

(* a fallback that reports no pollutant at all *)
FallbackResultEmpty(now) == [aggregated |-> EmptyDict, last_updated |-> now, locations |-> <<>>]

FallbackResult(now) == [aggregated |-> DummyAggregated, last_updated |-> now, locations |-> <<>>]

NotFound == [kind |-> "return", status |-> 404, body |-> "No locations found for this city."]

(* a lookup handler without the `if not loc_data` test *)
NoLocationsIgnored(loc_data) == FALSE

(* if not loc_data *)
NoLocations(loc_data) == loc_data = <<>>

AggStart(p, city) ==
    /\ pc[p] = "idle"
    /\ LET key == CityKey(city)
           f == [op |-> "air_quality", city |-> city, cache_key |-> key, now |-> clock,
                 sent |-> clock, timeout |-> FETCH_TIMEOUT,
                 loc_data |-> <<>>, i |-> 0,
                 all_stations |-> <<>>, aggregated_values |-> EmptyDict,
                 lookups |-> 0, lookup |-> NoReply, calls |-> <<>>, outcome |-> "hit",
                 pre |-> Snapshot(key)]
       IN IF IsFresh(CACHE, key, clock)
          THEN /\ pc' = [pc EXCEPT ![p] = "done"]
               /\ frame' = [frame EXCEPT ![p] = f]
               /\ ret' = [ret EXCEPT ![p] = Returned(CACHE[key].data)]
          ELSE /\ pc' = [pc EXCEPT ![p] = "lookup_wait"]
               /\ frame' = [frame EXCEPT ![p] = [f EXCEPT !.lookups = 1, !.outcome = "pending"]]
               /\ ret' = ret
    /\ UNCHANGED <<CACHE, clock, ticks, hist>>

(* From frame f, with the loop at index j: send the latest-readings call of *)
(* station j, or, past the last station, average, cache and return.         *)
AggContinue(p, f, j) ==
    IF j <= Len(f.loc_data)
    THEN /\ pc' = [pc EXCEPT ![p] = "latest_wait"]
         /\ frame' = [frame EXCEPT ![p] = [f EXCEPT !.i = j, !.sent = clock]]
         /\ UNCHANGED <<CACHE, ret, hist>>
    ELSE LET result == [aggregated |-> Averages(f.aggregated_values),
                        last_updated |-> clock,
                        locations |-> f.all_stations]
         IN /\ pc' = [pc EXCEPT ![p] = "done"]
            /\ frame' = [frame EXCEPT ![p] = [f EXCEPT !.i = j, !.outcome = "ok"]]
            /\ CACHE' = CachePut(CACHE, f.cache_key, result, f.now)
            /\ hist' = RecordPut(f.cache_key)
            /\ ret' = [ret EXCEPT ![p] = Returned(result)]

(* a loop without the inner except clause: the failure reaches the outer handlers *)
StationFailureAborts(e) == FALSE

(* the except clause around one latest-readings call: TRUE when the loop goes on *)
StationFailureIsolated(e) == IsRequestException(e)

LookupReply(p, reply) ==
    /\ pc[p] = "lookup_wait"
    /\ LET f == [frame[p] EXCEPT !.lookup = reply]
           e == RaisedBy(reply)
       IN IF e # None
          THEN /\ pc' = [pc EXCEPT ![p] = "done"]
               /\ frame' = [frame EXCEPT ![p] = [f EXCEPT !.outcome = "fail"]]
               /\ ret' = [ret EXCEPT ![p] =
                            IF IsRequestException(e) THEN Returned(FallbackResult(clock))
                            ELSE Raised(e)]
               /\ hist' = RecordFailure(f.cache_key, f.pre.nputs)
               /\ CACHE' = CACHE
          ELSE IF NoLocations(reply.body)
          THEN /\ pc' = [pc EXCEPT ![p] = "done"]
               /\ frame' = [frame EXCEPT ![p] = [f EXCEPT !.outcome = "not_found"]]
               /\ ret' = [ret EXCEPT ![p] = NotFound]
               /\ UNCHANGED <<CACHE, hist>>
          ELSE LET g == [f EXCEPT !.loc_data = reply.body]
               IN AggContinue(p, g, NextNamed(g.loc_data, 1))
    /\ UNCHANGED <<clock, ticks>>

LatestReply(p, reply) ==
    /\ pc[p] = "latest_wait"
    /\ LET f == frame[p]
           e == RaisedBy(reply)
           name == LocationName(f.loc_data[f.i])
       IN IF e = None
          THEN LET acc == AddStations([all_stations |-> f.all_stations,
                                       aggregated_values |-> f.aggregated_values],
                                      reply.body)
                   g == [f EXCEPT !.all_stations = acc.all_stations,
                                  !.aggregated_values = acc.aggregated_values,
                                  !.calls = Append(@, [name |-> name, ok |-> TRUE,
                                                       records |-> reply.body])]
               IN AggContinue(p, g, NextNamed(g.loc_data, g.i + 1))
          ELSE LET g == [f EXCEPT !.calls = Append(@, [name |-> name, ok |-> FALSE,
                                                       records |-> <<>>])]
               IN IF StationFailureIsolated(e)
                  THEN AggContinue(p, g, NextNamed(g.loc_data, g.i + 1))
                  ELSE /\ pc' = [pc EXCEPT ![p] = "done"]
                       /\ frame' = [frame EXCEPT ![p] = [g EXCEPT !.outcome = "fail"]]
                       /\ ret' = [ret EXCEPT ![p] =
                                    IF IsRequestException(e)
                                    THEN Returned(FallbackResult(clock)) ELSE Raised(e)]
                       /\ UNCHANGED <<CACHE, hist>>
    /\ UNCHANGED <<clock, ticks>>

(* ------------------------------ current_weather ----------------------- *)

WeatherBodies == { [current_weather |-> [temperature |-> 31]], [latitude |-> 41] }

WeatherReplies == FailedReplies \cup { Ok(b) : b \in WeatherBodies }

(* data.get(key): the value, or None when the key is missing *)
Get(data, key, default) == IF key \in DOMAIN data THEN data[key] ELSE default

BadGateway == [kind |-> "raise", exc |-> "HTTPException", status |-> 502]

WeatherStart(p) ==
    /\ pc[p] = "idle"
    /\ pc' = [pc EXCEPT ![p] = "weather_wait"]
    /\ frame' = [frame EXCEPT ![p] = [op |-> "current_weather", sent |-> clock,
                                      timeout |-> WEATHER_TIMEOUT, reply |-> NoReply]]
    /\ UNCHANGED <<CACHE, clock, ticks, ret, hist>>

WeatherReply(p, reply) ==
    /\ pc[p] = "weather_wait"
    /\ LET e == RaisedBy(reply)
       IN ret' = [ret EXCEPT ![p] =
                    IF e = None
                    THEN Returned([source |-> "open-meteo",
                                   current_weather |-> Get(reply.body, "current_weather", None)])
                    ELSE IF IsRequestException(e) THEN BadGateway
                    ELSE Raised(e)]
    /\ pc' = [pc EXCEPT ![p] = "done"]
    /\ frame' = [frame EXCEPT ![p] = [@ EXCEPT !.reply = reply]]
    /\ UNCHANGED <<CACHE, clock, ticks, hist>>

(* ------------------------------ forecast ------------------------------- *)

ForecastBodies == { [daily |-> [time |-> <<0>>]], [latitude |-> 41] }

ForecastReplies ==
    { r \in FailedReplies : r.exc = "Timeout" \/ (r.status = 500 /\ ~r.parses) }
    \cup { Ok(b) : b \in ForecastBodies }

TempBodies ==
    { [current_weather |-> [temperature |-> 31]],
      [current_weather |-> [windspeed |-> 3]],
      [latitude |-> 41] }

TempReplies ==
    { r \in FailedReplies : r.exc = "ConnectionError" \/ (r.status = 200 /\ ~r.parses) }
    \cup { Ok(b) : b \in TempBodies }

(* values of random.uniform(-3, 3) and random.uniform(0, 5), in hundredths *)
TempNoise == {-300, 296}

RainNoise == {4, 500}

(* the draws of one list: every sequence for a short list, the constant ones for a long one *)
Draws(noise, days) ==
    IF days <= MaxDays THEN [1..days -> noise]
    ELSE { [i \in 1..days |-> x] : x \in noise }

RandomDraws(tnoise, rnoise, days) ==
    { [tmax |-> a, tmin |-> b, precip |-> c] :
        a \in Draws(tnoise, days), b \in Draws(tnoise, days), c \in Draws(rnoise, days) }

DayCounts == (1..MaxDays) \cup {MAX_FORECAST_DAYS}

(* round(x, 1) of a value in hundredths, in tenths *)
Round1(x) == (x + 5) \div 10

Max(a, b) == IF a >= b THEN a ELSE b

(* (base + timedelta(days=i)).date(), as a day number *)
DateOf(t) == t \div SECONDS_PER_DAY

(* a range that starts at 1: range(1, days + 1) *)
DayOffsetsFromOne(days) == [k \in 1..days |-> k]

(* range(days), as the 1-based positions of the lists built from it *)
DayOffsets(days) == [k \in 1..days |-> k - 1]

(* the naive forecast: dates, tmax, tmin and precip from temp (degrees) and the draws *)
Synthesize(base, days, temp, rnd) ==
    LET offs == DayOffsets(days)
    IN [time |-> [k \in DOMAIN offs |-> DateOf(base + offs[k] * SECONDS_PER_DAY)],
        temperature_2m_max |-> [k \in DOMAIN offs |-> Round1(temp * 100 + 500 + rnd.tmax[k])],
        temperature_2m_min |-> [k \in DOMAIN offs |-> Round1(temp * 100 - 200 + rnd.tmin[k])],
        precipitation_sum |-> [k \in DOMAIN offs |-> Round1(Max(0, rnd.precip[k]))]]

ForecastStart(p, days) ==
    /\ pc[p] = "idle"
    /\ pc' = [pc EXCEPT ![p] = "forecast_wait"]
    /\ frame' = [frame EXCEPT ![p] = [op |-> "forecast", days |-> days, sent |-> clock,
                                      timeout |-> FETCH_TIMEOUT, primary |-> NoReply,
                                      secondary |-> NoReply, tempcalls |-> 0,
                                      temp |-> None, base |-> 0]]
    /\ UNCHANGED <<CACHE, clock, ticks, ret, hist>>

ForecastReply(p, reply) ==
    /\ pc[p] = "forecast_wait"
    /\ LET f == [frame[p] EXCEPT !.primary = reply]
           e == RaisedBy(reply)
       IN IF e = None
          THEN /\ pc' = [pc EXCEPT ![p] = "done"]
               /\ frame' = [frame EXCEPT ![p] = f]
               /\ ret' = [ret EXCEPT ![p] =
                            Returned([source |-> "open-meteo",
                                      daily |-> Get(reply.body, "daily", EmptyDict)])]
          ELSE IF IsRequestException(e)
          THEN /\ pc' = [pc EXCEPT ![p] = "temp_wait"]
               /\ frame' = [frame EXCEPT ![p] =
                              [f EXCEPT !.sent = clock, !.timeout = CURRENT_TEMP_TIMEOUT,
                                        !.tempcalls = @ + 1]]
               /\ ret' = ret
          ELSE /\ pc' = [pc EXCEPT ![p] = "done"]
               /\ frame' = [frame EXCEPT ![p] = f]
               /\ ret' = [ret EXCEPT ![p] = Raised(e)]
    /\ UNCHANGED <<CACHE, clock, ticks, hist>>

(* cw_resp.json().get("current_weather", {}).get("temperature", 20) *)
TemperatureOf(data) ==
    Get(Get(data, "current_weather", EmptyDict), "temperature", DEFAULT_TEMP)

(* a handler that takes 0 degrees when the current temperature cannot be had *)
TempAfterFailureZero(e) == 0

(* except Exception: temp = 20 *)
TempAfterFailure(e) == DEFAULT_TEMP

TempReply(p, reply, tnoise, rnoise) ==
    /\ pc[p] = "temp_wait"
    /\ LET e == RaisedBy(reply)
           temp == IF e = None THEN TemperatureOf(reply.body) ELSE TempAfterFailure(e)
           f == [frame[p] EXCEPT !.secondary = reply, !.temp = temp, !.base = clock]
       IN /\ frame' = [frame EXCEPT ![p] = f]
          /\ \E rnd \in RandomDraws(tnoise, rnoise, f.days) :
                ret' = [ret EXCEPT ![p] =
                          Returned([source |-> "fallback",
                                    daily |-> Synthesize(clock, f.days, temp, rnd)])]
    /\ pc' = [pc EXCEPT ![p] = "done"]
    /\ UNCHANGED <<CACHE, clock, ticks, hist>>

(* ------------------------------ specifications ------------------------- *)

Init ==
    /\ CACHE = EmptyDict
    /\ clock = 0
    /\ ticks = 0
    /\ pc = [p \in Threads |-> "idle"]
    /\ frame = [p \in Threads |-> IdleFrame]
    /\ ret = [p \in Threads |-> NoRet]
    /\ hist = EmptyDict

NextFetch ==
    \/ \E d \in Steps : Tick(d)
    \/ Finish(Main)
    \/ \E req \in Requests : FetchStart(Main, req)
    \/ \E reply \in Replies : FetchReply(Main, reply)

SpecFetch == Init /\ [][NextFetch]_vars

(* every endpoint, one request at a time, on a few upstream answers each *)
Next ==
    \/ Tick(CACHE_TTL)
    \/ Finish(Main)
    \/ \E req \in {r \in Requests : r.cache_key = None} : FetchStart(Main, req)
    \/ \E reply \in FailedReplies \cup {Ok("d1")} : FetchReply(Main, reply)
    \/ \E city \in Cities : AggStart(Main, city)
    \/ \E reply \in FailedReplies \cup {Ok(<<>>), Ok(<<LocA, LocB>>)} : LookupReply(Main, reply)
    \/ \E reply \in FailedReplies \cup {Ok(<<RecA>>)} : LatestReply(Main, reply)
    \/ WeatherStart(Main)
    \/ \E reply \in WeatherReplies : WeatherReply(Main, reply)
    \/ \E days \in {1, MAX_FORECAST_DAYS} : ForecastStart(Main, days)
    \/ \E reply \in ForecastReplies : ForecastReply(Main, reply)
    \/ \E reply \in TempReplies : TempReply(Main, reply, {296}, {4})

Spec == Init /\ [][Next]_vars

NextAgg ==
    \/ \E d \in Steps : Tick(d)
    \/ Finish(Main)
    \/ \E city \in Cities : AggStart(Main, city)
    \/ \E reply \in LookupReplies : LookupReply(Main, reply)
    \/ \E reply \in LatestReplies : LatestReply(Main, reply)

SpecAgg == Init /\ [][NextAgg]_vars

(* the forecast endpoint alone, started at several times of day *)
StartTimes == {0, SECONDS_PER_DAY - FETCH_TIMEOUT, 3 * SECONDS_PER_DAY + CACHE_TTL}

InitForecast ==
    /\ CACHE = EmptyDict
    /\ clock \in StartTimes
    /\ ticks = 0
    /\ pc = [p \in Threads |-> "idle"]
    /\ frame = [p \in Threads |-> IdleFrame]
    /\ ret = [p \in Threads |-> NoRet]
    /\ hist = EmptyDict

NextForecast ==
    \/ Tick(FETCH_TIMEOUT)
    \/ Finish(Main)
    \/ \E days \in DayCounts : ForecastStart(Main, days)
    \/ \E reply \in ForecastReplies : ForecastReply(Main, reply)
    \/ \E reply \in TempReplies : TempReply(Main, reply, TempNoise, RainNoise)

SpecForecast == InitForecast /\ [][NextForecast]_vars

(* ------------------------------ fetch_and_cache: properties ------------ *)

FetchDone(p) == pc[p] = "done" /\ frame[p].op = "fetch_and_cache"

FetchCalled(p) == pc[p] \in {"fetch_wait", "done"} /\ frame[p].op = "fetch_and_cache"

(* C1: a fetch_and_cache call made less than TTL seconds after the last    *)
(* store of an entry for its key returns the stored payload and issues no  *)
(* upstream call, whatever the latency of the call that stored it.         *)
C1_FreshSincePutIsServed ==
    \A p \in Threads :
        (FetchDone(p) /\ frame[p].pre.had /\ frame[p].pre.age < CACHE_TTL)
            => (ret[p] = Returned(frame[p].pre.data) /\ frame[p].upcalls = 0)

(* C2: a fetch_and_cache call made TTL seconds or more after the entry for *)
(* its key was stored (exactly TTL included), or for a key without entry,  *)
(* issues exactly one upstream call, whether that call succeeds or fails.  *)
C2_StaleOrAbsentCallsUpstreamOnce ==
    \A p \in Threads :
        (FetchCalled(p) /\ (~frame[p].pre.had \/ frame[p].pre.age >= CACHE_TTL))
            => /\ frame[p].upcalls = 1
               /\ pc[p] = "done" => frame[p].outcome \in {"ok", "fail"}

C2_Witness ==
    \E p \in Threads :
        /\ FetchDone(p)
        /\ frame[p].pre.had /\ frame[p].pre.age = CACHE_TTL
        /\ frame[p].upcalls = 1
        /\ frame[p].outcome = "fail"

(* C3: a failed upstream call leaves the cache as it was: no entry is      *)
(* created or changed, no fallback is ever stored, and a call for the same *)
(* key that starts before any later success goes upstream again.           *)
C3_FailureStep ==
    \A p \in Threads :
        (pc[p] = "fetch_wait" /\ pc'[p] = "done" /\ frame'[p].outcome = "fail")
            => CACHE' = CACHE

C3_RetryState ==
    /\ \A k \in DOMAIN CACHE : CACHE[k].data \notin Fallbacks
    /\ \A p \in Threads :
          (FetchCalled(p) /\ frame[p].pre.afterfail)
              => (frame[p].upcalls = 1 /\ frame[p].outcome # "hit")

C3_FailureLeavesCacheAlone == [][C3_FailureStep]_vars /\ []C3_RetryState

C3_Witness ==
    \E p \in Threads :
        /\ FetchDone(p)
        /\ frame[p].pre.afterfail /\ frame[p].pre.had
        /\ frame[p].outcome = "fail"
        /\ CACHE[frame[p].cache_key].data = frame[p].pre.data

(* C4: fetch_and_cache never raises: a transport error or timeout, a       *)
(* non-2xx status and an unparseable body each make it return the caller's *)
(* fallback value unchanged.                                               *)
C4_FailureReturnsFallback ==
    \A p \in Threads :
        FetchDone(p) =>
            /\ ret[p].kind = "return"
            /\ (/\ frame[p].reply # NoReply
                /\ \/ frame[p].reply.exc # None
                   \/ frame[p].reply.status \notin 200..299
                   \/ ~frame[p].reply.parses)
               => ret[p] = Returned(frame[p].fallback_data)

C4_Witness ==
    \E p \in Threads :
        /\ FetchDone(p)
        /\ frame[p].reply.exc = None /\ frame[p].reply.status = 200
        /\ ~frame[p].reply.parses
        /\ ret[p] = Returned(frame[p].fallback_data)

(* ------------------------------ air_quality: properties ---------------- *)

AggDone(p) == pc[p] = "done" /\ frame[p].op = "air_quality"

(* the lookup call was made and failed: transport error, non-2xx status or unparseable body *)
LookupFailed(f) ==
    /\ f.lookups = 1
    /\ f.lookup # NoReply
    /\ (f.lookup.exc # None \/ f.lookup.status \notin 200..299 \/ ~f.lookup.parses)

(* the lookup call was made and returned a list of locations *)
LookupSucceeded(f) ==
    /\ f.lookups = 1
    /\ f.lookup.exc = None /\ f.lookup.status \in 200..299 /\ f.lookup.parses

IsDummy(r) ==
    /\ r.kind = "return" /\ r.status = 200
    /\ r.body.locations = <<>>
    /\ r.body.aggregated =
          ("pm25" :> [num |-> 20, den |-> 1]) @@ ("pm10" :> [num |-> 35, den |-> 1])
              @@ ("no2" :> [num |-> 15, den |-> 1])

(* C6: with no fresh cached result, a lookup that succeeds with an empty   *)
(* list makes air_quality answer 404 without any latest-readings call.     *)
C6_EmptyLookupIsNotFound ==
    \A p \in Threads :
        (AggDone(p) /\ LookupSucceeded(frame[p]) /\ frame[p].lookup.body = <<>>)
            => /\ ret[p].kind = "return" /\ ret[p].status = 404
               /\ frame[p].calls = <<>>

C6_Witness ==
    \E p \in Threads :
        /\ AggDone(p) /\ LookupSucceeded(frame[p]) /\ frame[p].lookup.body = <<>>
        /\ frame[p].pre.had
        /\ ret[p].status = 404

(* C7: a failed lookup call makes air_quality return the dummy result      *)
(* (pm25 20, pm10 35, no2 15, no stations) without an error, and a run     *)
(* whose lookup succeeded never returns that result.                       *)
C7_DummyOnlyOnLookupFailure ==
    \A p \in Threads :
        AggDone(p) =>
            /\ LookupFailed(frame[p]) => IsDummy(ret[p])
            /\ (LookupSucceeded(frame[p]) /\ ret[p].kind = "return" /\ ret[p].status = 200)
                  => ~IsDummy(ret[p])
            /\ LookupSucceeded(frame[p]) => ret[p].kind = "return"

C7_Witness ==
    \E p \in Threads :
        /\ AggDone(p) /\ LookupFailed(frame[p]) /\ ~frame[p].lookup.parses
        /\ frame[p].lookup.status = 200
        /\ IsDummy(ret[p])

(* the names of the locations of a lookup result that have one, in order *)
RECURSIVE NamesOf(_)
NamesOf(locs) ==
    IF locs = <<>> THEN <<>>
    ELSE LET l == Head(locs)
             n == IF l.name # None THEN l.name ELSE l.location
         IN (IF n # None THEN <<n>> ELSE <<>>) \o NamesOf(Tail(locs))

(* the records of the calls that succeeded, in call order *)
RECURSIVE FetchedRecords(_)
FetchedRecords(calls) ==
    IF calls = <<>> THEN <<>>
    ELSE (IF Head(calls).ok THEN Head(calls).records ELSE <<>>) \o FetchedRecords(Tail(calls))

(* the values records report for a parameter *)
RECURSIVE ValuesIn(_, _)
ValuesIn(recs, param) ==
    IF recs = <<>> THEN <<>>
    ELSE LET ms == Head(recs).measurements
         IN [k \in 1..Cardinality({j \in 1..Len(ms) : ms[j].parameter = param}) |->
                LET idx == {j \in 1..Len(ms) : ms[j].parameter = param}
                IN ms[CHOOSE j \in idx : Cardinality({h \in idx : h < j}) = k - 1].value]
            \o ValuesIn(Tail(recs), param)

Parameters == {"pm25", "pm10", "no2"}

(* C8: whichever latest-readings calls fail, every named station is still  *)
(* called, the station list holds exactly the records of the stations      *)
(* whose call succeeded, the aggregate has a parameter only if one of      *)
(* those records reports it, and the run ends with a computed result:      *)
(* not the dummy and not an error.                                         *)
C8_PartialFailureIsolation ==
    \A p \in Threads :
        (AggDone(p) /\ LookupSucceeded(frame[p]) /\ frame[p].lookup.body # <<>>)
            => /\ [k \in 1..Len(frame[p].calls) |-> frame[p].calls[k].name]
                     = NamesOf(frame[p].lookup.body)
               /\ ret[p].kind = "return" /\ ret[p].status = 200
               /\ ret[p].body.locations = FetchedRecords(frame[p].calls)
               /\ \A prm \in DOMAIN ret[p].body.aggregated :
                     ValuesIn(FetchedRecords(frame[p].calls), prm) # <<>>
               /\ ~IsDummy(ret[p])

C8_Witness ==
    \E p \in Threads :
        /\ AggDone(p) /\ LookupSucceeded(frame[p])
        /\ Len(frame[p].calls) = 3
        /\ frame[p].calls[1].ok /\ ~frame[p].calls[2].ok /\ frame[p].calls[3].ok
        /\ frame[p].calls[1].records = <<RecA>> /\ frame[p].calls[3].records = <<RecA>>
        /\ ret[p].body.locations = <<RecA, RecA>>
        /\ "pm25" \in DOMAIN ret[p].body.aggregated

RECURSIVE Total(_)
Total(vals) == IF Len(vals) = 0 THEN 0 ELSE vals[Len(vals)] + Total(SubSeq(vals, 1, Len(vals) - 1))

(* C9: in a computed result a parameter is present exactly when a fetched  *)
(* record reports it, and its value is the mean of all the values reported *)
(* for it, a station resolved twice counting once per occurrence.          *)
C9_AggregatedIsMean ==
    \A p \in Threads :
        (AggDone(p) /\ frame[p].outcome = "ok") =>
            \A prm \in Parameters :
                LET vals == ValuesIn(FetchedRecords(frame[p].calls), prm)
                    agg == ret[p].body.aggregated
                IN /\ prm \in DOMAIN agg <=> vals # <<>>
                   /\ prm \in DOMAIN agg =>
                         /\ agg[prm].den > 0
                         /\ agg[prm].num * Len(vals) = agg[prm].den * Total(vals)
                /\ DOMAIN ret[p].body.aggregated \subseteq Parameters

C9_Witness ==
    \E p \in Threads :
        /\ AggDone(p) /\ frame[p].outcome = "ok"
        /\ frame[p].lookup.body = <<LocA, LocA>>
        /\ frame[p].calls[1].records = <<RecA>> /\ frame[p].calls[2].records = <<RecB, RecC>>
        /\ ret[p].body.aggregated["pm25"] = [num |-> 40, den |-> 3]
        /\ DOMAIN ret[p].body.aggregated = {"pm25", "pm10", "no2"}

(* ------------------------------ forecast: properties ------------------- *)

ForecastDone(p) == pc[p] = "done" /\ frame[p].op = "forecast"

Synthesized(p) ==
    ForecastDone(p) /\ ret[p].kind = "return" /\ ret[p].body.source = "fallback"

(* C10: a synthesized forecast for N days, N in 1..16, has four lists of   *)
(* length N, its i-th date is the UTC day of the synthesis plus i, and no  *)
(* precipitation value is negative.                                        *)
C10_SynthesizedSeriesAligned ==
    \A p \in Threads :
        (Synthesized(p) /\ frame[p].days \in 1..16) =>
            LET d == ret[p].body.daily
                n == frame[p].days
                today == frame[p].base \div 86400
            IN /\ DOMAIN d.time = 1..n
               /\ DOMAIN d.temperature_2m_max = 1..n
               /\ DOMAIN d.temperature_2m_min = 1..n
               /\ DOMAIN d.precipitation_sum = 1..n
               /\ \A i \in 0..(n - 1) :
                     /\ d.time[i + 1] = today + i
                     /\ d.precipitation_sum[i + 1] >= 0

C10_Witness ==
    \E p \in Threads :
        /\ Synthesized(p)
        /\ frame[p].days = 16
        /\ frame[p].base = 86400
        /\ ret[p].body.daily.time[16] = 16
        /\ ret[p].body.daily.precipitation_sum[1] = 0

(* ------------------------------ all endpoints: properties -------------- *)

Done(p) == pc[p] = "done"

(* the primary upstream call of the operation failed *)
Failed(reply) ==
    reply # NoReply /\ (reply.exc # None \/ reply.status \notin 200..299 \/ ~reply.parses)

ErrorSignal(r) == r.kind # "return" \/ r.status # 200

NotFoundCase(p) ==
    /\ frame[p].op = "air_quality"
    /\ LookupSucceeded(frame[p]) /\ frame[p].lookup.body = <<>>
    /\ ret[p].kind = "return" /\ ret[p].status = 404

BadGatewayCase(p) ==
    /\ frame[p].op = "current_weather"
    /\ Failed(frame[p].reply)
    /\ ret[p].kind = "raise" /\ ret[p].exc = "HTTPException" /\ ret[p].status = 502

(* the payload has the shape of its endpoint *)
WellFormed(p) ==
    /\ ret[p].kind = "return" /\ ret[p].status = 200
    /\ CASE frame[p].op = "fetch_and_cache" ->
              ret[p].body \in Payloads \cup Fallbacks
         [] frame[p].op = "air_quality" ->
              DOMAIN ret[p].body = {"aggregated", "last_updated", "locations"}
         [] frame[p].op = "current_weather" ->
              DOMAIN ret[p].body = {"source", "current_weather"}
         [] frame[p].op = "forecast" ->
              /\ DOMAIN ret[p].body = {"source", "daily"}
              /\ ret[p].body.source \in {"open-meteo", "fallback"}

(* C5: whatever the upstream calls answer, every operation returns a       *)
(* well-formed payload and signals no error, except air_quality's 404      *)
(* after a lookup that succeeded with no station.                          *)
C5_OnlyNotFoundIsSignalled ==
    \A p \in Threads :
        Done(p) => (IF ErrorSignal(ret[p]) THEN NotFoundCase(p) ELSE WellFormed(p))

(* C5 as amended: the error signals are air_quality's 404 after a lookup   *)
(* that succeeded with no station and current_weather's 502 after its      *)
(* upstream call failed; every other outcome is a well-formed payload.     *)
C5_OnlyNotFoundAndBadGateway ==
    \A p \in Threads :
        Done(p) =>
            /\ IF ErrorSignal(ret[p])
               THEN NotFoundCase(p) \/ BadGatewayCase(p)
               ELSE WellFormed(p)
            /\ (frame[p].op = "current_weather" /\ Failed(frame[p].reply))
                  => ErrorSignal(ret[p])
            /\ (frame[p].op # "current_weather" /\ frame[p].op # "air_quality")
                  => ~ErrorSignal(ret[p])

C5_Witness ==
    \E p \in Threads :
        /\ Done(p) /\ BadGatewayCase(p)
        /\ frame[p].reply.exc = None /\ frame[p].reply.status = 200 /\ ~frame[p].reply.parses
        /\ DOMAIN CACHE # {}

(* ------------------------------ forecast: the two calls ---------------- *)

(* C11: forecast answers with the synthesized series tagged "fallback"     *)
(* exactly when its primary call failed, and with the upstream daily data  *)
(* tagged "open-meteo" otherwise; the current-temperature call is issued   *)
(* only after the primary call failed and at most once; when it fails too, *)
(* the series is built on a temperature of 20.                             *)
C11_FallbackIffPrimaryFailed ==
    \A p \in Threads :
        frame[p].op = "forecast" =>
            LET f == frame[p]
            IN /\ f.tempcalls <= 1
               /\ f.tempcalls = 1 => Failed(f.primary)
               /\ pc[p] = "temp_wait" => f.tempcalls = 1
               /\ pc[p] = "done" =>
                     /\ ret[p].kind = "return"
                     /\ ret[p].body.source = "fallback" <=> Failed(f.primary)
                     /\ ~Failed(f.primary) =>
                           /\ ret[p].body.source = "open-meteo"
                           /\ ret[p].body.daily = Get(f.primary.body, "daily", EmptyDict)
                           /\ f.tempcalls = 0
                     /\ Failed(f.primary) =>
                           /\ f.tempcalls = 1
                           /\ f.secondary # NoReply
                           /\ Failed(f.secondary) =>
                                 /\ f.temp = 20
                                 /\ \A k \in 1..f.days :
                                       /\ ret[p].body.daily.temperature_2m_max[k] \in 220..280
                                       /\ ret[p].body.daily.temperature_2m_min[k] \in 150..210

C11_Witness ==
    \E p \in Threads :
        /\ ForecastDone(p)
        /\ Failed(frame[p].primary) /\ Failed(frame[p].secondary)
        /\ frame[p].tempcalls = 1
        /\ ret[p].body.source = "fallback"
        /\ ret[p].body.daily.temperature_2m_max[1] = 280

(* ------------------------------ get_cities ----------------------------- *)

MaxLocs == 3

Countries == {"UZ"}

CitiesUrl(country) == "locations?country=" \o country \o "&limit=1000"

CitiesKey(country) == "cities_" \o country

CitiesRequest(country) ==
    [url |-> CitiesUrl(country), cache_key |-> CitiesKey(country),
     fallback_data |-> [results |-> <<>>]]

(* location records: with a city, with no boundary, with an empty city name *)
CityLocs ==
    { [name |-> "s1", boundary |-> [city |-> "Tashkent"]],
      [name |-> "s2", boundary |-> [city |-> "Delhi"]],
      [name |-> "s3", boundary |-> [city |-> "New York"]],
      [name |-> "s4"],
      [name |-> "s5", boundary |-> [city |-> ""]] }

CityLists == UNION { [1..n -> CityLocs] : n \in 0..MaxLocs }

CitiesReplies ==
    { r \in FailedReplies : r.exc = "ConnectionError" }
    \cup { Ok([results |-> l]) : l \in CityLists }

(* loc.get("boundary") and loc["boundary"].get("city") *)
HasCity(loc) ==
    /\ "boundary" \in DOMAIN loc
    /\ DOMAIN loc.boundary # {}
    /\ "city" \in DOMAIN loc.boundary
    /\ loc.boundary.city \notin {None, ""}

CityNamesIn(results) ==
    { results[i].boundary.city : i \in { j \in DOMAIN results : HasCity(results[j]) } }

(* the city names of the model in the order of Python's string comparison *)
PythonOrder == <<"Delhi", "New York", "Tashkent">>

Rank(name) == CHOOSE i \in DOMAIN PythonOrder : PythonOrder[i] = name

Before(a, b) == Rank(a) < Rank(b)

RECURSIVE SortedListDescending(_)
(* a sort from the greatest name down *)
SortedListDescending(S) ==
    IF S = {} THEN <<>>
    ELSE LET m == CHOOSE x \in S : \A y \in S : ~Before(x, y)
         IN <<m>> \o SortedListDescending(S \ {m})

RECURSIVE SortedList(_)
(* sorted(list(cities)) *)
SortedList(S) ==
    IF S = {} THEN <<>>
    ELSE LET m == CHOOSE x \in S : \A y \in S : ~Before(y, x)
         IN <<m>> \o SortedList(S \ {m})

FallbackCities == <<[city |-> "Tashkent"], [city |-> "New York"], [city |-> "Delhi"]>>

CitiesResponse(data) ==
    LET sorted_cities == SortedList(CityNamesIn(Get(data, "results", <<>>)))
    IN IF sorted_cities = <<>>
       THEN [cities |-> FallbackCities]
       ELSE [cities |-> [i \in DOMAIN sorted_cities |-> [city |-> sorted_cities[i]]]]

(* get_cities calls fetch_and_cache ... *)
CitiesStart(p, country) == FetchStart(p, CitiesRequest(country))

(* ... and builds its response from what fetch_and_cache returned *)
CitiesReturn(p) ==
    /\ pc[p] = "done"
    /\ frame[p].op = "fetch_and_cache"
    /\ \E country \in Countries : frame[p].url = CitiesUrl(country)
    /\ ret[p].kind = "return"
    /\ ret' = [ret EXCEPT ![p] = Returned(CitiesResponse(ret[p].body))]
    /\ frame' = [frame EXCEPT ![p] = [@ EXCEPT !.op = "get_cities"]]
    /\ UNCHANGED <<CACHE, clock, ticks, pc, hist>>

NextCities ==
    \/ frame[Main].op = "get_cities" /\ Finish(Main)
    \/ \E country \in Countries : CitiesStart(Main, country)
    \/ \E reply \in CitiesReplies : FetchReply(Main, reply)
    \/ CitiesReturn(Main)

SpecCities == Init /\ [][NextCities]_vars

(* ------------------------------ get_cities: properties ----------------- *)

CitiesDone(p) == pc[p] = "done" /\ frame[p].op = "get_cities"

(* the location records fetch_and_cache handed to get_cities *)
RecordsGiven(p) ==
    IF frame[p].outcome = "ok" THEN frame[p].reply.body.results
    ELSE IF frame[p].outcome = "hit" THEN frame[p].pre.data.results
    ELSE <<>>

(* the city names present in a list of records *)
NamesPresent(locs) ==
    { c \in { PythonOrder[i] : i \in DOMAIN PythonOrder } :
        \E i \in DOMAIN locs :
            /\ "boundary" \in DOMAIN locs[i]
            /\ "city" \in DOMAIN locs[i].boundary
            /\ locs[i].boundary.city = c }

ExactlyAscending(out, names) ==
    /\ Len(out) = Cardinality(names)
    /\ { out[i].city : i \in DOMAIN out } = names
    /\ \A i, j \in DOMAIN out : i < j => Before(out[i].city, out[j].city)

(* C12: for any list of location records returned for a country, the       *)
(* cities operation returns exactly the distinct city names present in the *)
(* records, each once, in ascending order.                                 *)
C12_DistinctNamesAscending ==
    \A p \in Threads :
        (CitiesDone(p) /\ frame[p].outcome \in {"ok", "hit"}) =>
            ExactlyAscending(ret[p].body.cities, NamesPresent(RecordsGiven(p)))

(* C12 as amended: when at least one record carries a city name the        *)
(* response is exactly the distinct names, each once, ascending; when no   *)
(* record does (an empty list, or a failed fetch) it is the fixed list     *)
(* Tashkent, New York, Delhi in that order.                                *)
C12_DistinctNamesOrFixedList ==
    \A p \in Threads :
        CitiesDone(p) =>
            LET names == NamesPresent(RecordsGiven(p))
            IN IF names # {}
               THEN ExactlyAscending(ret[p].body.cities, names)
               ELSE ret[p].body.cities = FallbackCities

C12_Witness ==
    \E p \in Threads :
        /\ CitiesDone(p)
        /\ frame[p].outcome = "ok"
        /\ Len(frame[p].reply.body.results) = 3
        /\ frame[p].reply.body.results[1] = frame[p].reply.body.results[3]
        /\ HasCity(frame[p].reply.body.results[1])
        /\ frame[p].reply.body.results[1].boundary.city = "Tashkent"
        /\ ret[p].body.cities = <<[city |-> "Delhi"], [city |-> "Tashkent"]>>

(* ------------------------------ fetch_and_cache: stale entries --------- *)

(* C13: an entry stored TTL seconds ago or more is never served: the call  *)
(* goes upstream, and when the upstream call fails it returns the caller's *)
(* fallback, not the stale payload, exactly as a call without entry does.  *)
C13_StaleNeverServed ==
    \A p \in Threads :
        (FetchDone(p) /\ frame[p].pre.had /\ frame[p].pre.age >= CACHE_TTL) =>
            /\ frame[p].outcome # "hit"
            /\ frame[p].outcome = "fail" =>
                  /\ ret[p] = Returned(frame[p].fallback_data)
                  /\ ret[p].body # frame[p].pre.data
            /\ frame[p].outcome = "ok" => ret[p] = Returned(frame[p].reply.body)

C13_Witness ==
    \E p \in Threads :
        /\ FetchDone(p)
        /\ frame[p].pre.had /\ frame[p].pre.age > CACHE_TTL
        /\ frame[p].pre.data = "d2"
        /\ frame[p].reply.exc = "Timeout"
        /\ ret[p] = Returned(frame[p].fallback_data)
        /\ CACHE[frame[p].cache_key].data = "d2"

(* ------------------------------ cache: the recorded timestamp ---------- *)

(* C14: the timestamp recorded in a cache entry is the time at which the   *)
(* payload was stored, the moment the successful upstream call completed,  *)
(* for fetch_and_cache and for air_quality alike.                          *)
C14_TimestampIsStoreTime ==
    \A k \in DOMAIN CACHE : CACHE[k].timestamp = HistOf(k).at

(* ------------------------------ cache: structure ----------------------- *)

(* a step that adds or changes the entry of key k is the completion of one *)
(* successful call for k, and the new entry is that call's payload and     *)
(* timestamp together                                                      *)
WholeEntryWritten(k) ==
    \E p \in Threads :
        /\ pc[p] # "done" /\ pc'[p] = "done"
        /\ frame'[p].op \in {"fetch_and_cache", "air_quality"}
        /\ frame'[p].outcome = "ok"
        /\ frame'[p].cache_key = k
        /\ CACHE'[k] = [data |-> ret'[p].body, timestamp |-> frame'[p].now]

C15_Step ==
    /\ DOMAIN CACHE \subseteq DOMAIN CACHE'
    /\ \A k \in DOMAIN CACHE' :
          (k \notin DOMAIN CACHE \/ CACHE'[k] # CACHE[k]) => WholeEntryWritten(k)

C15_State ==
    \A k \in DOMAIN CACHE :
        /\ DOMAIN CACHE[k] = {"data", "timestamp"}
        /\ HistOf(k).n >= 1

(* C15: the cache holds one entry per key, its key set never shrinks, a    *)
(* key is present only after an upstream fetch for it succeeded, and an    *)
(* entry is replaced only as a whole.                                      *)
C15_CacheStructure == [][C15_Step]_vars /\ []C15_State

C15_Witness ==
    /\ Cardinality(DOMAIN CACHE) = 2
    /\ \E k \in DOMAIN CACHE : HistOf(k).n = 2 /\ CACHE[k].timestamp = CACHE_TTL

(* ------------------------------ concurrent requests -------------------- *)

(* Two requests in flight at once, their steps interleaved: every step of  *)
(* a handler between two upstream waits runs as one action, and the store  *)
(* of line 67 is one dict assignment.                                      *)
ConcRequests == { r \in Requests : r.url \in {"u1", "u3"} }

ConcReplies == { r \in FailedReplies : r.exc = "Timeout" } \cup { Ok(b) : b \in Payloads }

NextConc ==
    \/ Tick(FETCH_TIMEOUT)
    \/ \E p \in Threads : Finish(p)
    \/ \E p \in Threads, req \in ConcRequests : FetchStart(p, req)
    \/ \E p \in Threads, reply \in ConcReplies : FetchReply(p, reply)

SpecConc == Init /\ [][NextConc]_vars

(* ------------------------------ concurrent requests: properties -------- *)

(* thread p completes a successful upstream call in this step *)
Stores(p) ==
    /\ pc[p] # "done" /\ pc'[p] = "done"
    /\ frame'[p].op \in {"fetch_and_cache", "air_quality"}
    /\ frame'[p].outcome = "ok"

PairOf(p) == [data |-> ret[p].body, timestamp |-> frame[p].now]

C16_Step ==
    /\ \A p \in Threads :
          Stores(p) =>
              /\ DOMAIN CACHE' = DOMAIN CACHE \cup {frame'[p].cache_key}
              /\ CACHE'[frame'[p].cache_key] = PairOf(p)'
              /\ \A k \in DOMAIN CACHE : k # frame'[p].cache_key => CACHE'[k] = CACHE[k]
    /\ (\A p \in Threads : ~Stores(p)) => CACHE' = CACHE

C16_State ==
    \A p, q \in Threads :
        (/\ p # q
         /\ FetchDone(p) /\ frame[p].outcome = "ok"
         /\ FetchDone(q) /\ frame[q].outcome = "ok"
         /\ frame[p].cache_key = frame[q].cache_key)
            => CACHE[frame[p].cache_key] \in {PairOf(p), PairOf(q)}

(* C16: however concurrent fetches interleave, a store to one key leaves   *)
(* every other key's entry as it was, and after two concurrent successful  *)
(* fetches of one key the entry is the payload and timestamp written by    *)
(* the fetch that stored last, never a mixture of the two.                 *)
C16_StoresDoNotMix == [][C16_Step]_vars /\ []C16_State

C16_Witness ==
    /\ FetchDone("t1") /\ frame["t1"].outcome = "ok"
    /\ FetchDone("t2") /\ frame["t2"].outcome = "ok"
    /\ frame["t1"].cache_key = frame["t2"].cache_key
    /\ frame["t1"].now < frame["t2"].now
    /\ ret["t1"].body # ret["t2"].body
    /\ CACHE[frame["t1"].cache_key] = PairOf("t1")
    /\ Cardinality(DOMAIN CACHE) = 2

(* ------------------------------ air_quality: order and calls ----------- *)

(* the limit=5 of the lookup url *)
MAX_STATIONS == 5

(* a lookup result longer than the limit the url asks for *)
SixLocs == <<LocA, LocB, LocC, LocA, LocB, LocC>>

WideLookupReplies ==
    { r \in FailedReplies : r.exc = "Timeout" } \cup { Ok(<<LocA>>), Ok(SixLocs) }

WideLatestReplies ==
    { r \in FailedReplies : r.exc = "Timeout" } \cup { Ok(<<RecA>>), Ok(<<RecB, RecC>>) }

NextAggWide ==
    \/ Finish(Main)
    \/ \E city \in Cities : AggStart(Main, city)
    \/ \E reply \in WideLookupReplies : LookupReply(Main, reply)
    \/ \E reply \in WideLatestReplies : LatestReply(Main, reply)

SpecAggWide == Init /\ [][NextAggWide]_vars

(* the number of station records fetched by the calls before call k *)
RECURSIVE RecordsBefore(_, _)
RecordsBefore(calls, k) ==
    IF k <= 1 THEN 0
    ELSE RecordsBefore(calls, k - 1)
         + (IF calls[k - 1].ok THEN Len(calls[k - 1].records) ELSE 0)

(* C17: the station list of a computed result keeps the order in which the *)
(* lookup resolved the stations: the records of each successful call stand *)
(* together, after those of every earlier call and before those of every   *)
(* later one, whichever calls in between failed.                           *)
C17_StationOrderPreserved ==
    \A p \in Threads :
        (AggDone(p) /\ frame[p].outcome = "ok") =>
            LET calls == frame[p].calls
                out == ret[p].body.locations
            IN /\ Len(out) = RecordsBefore(calls, Len(calls) + 1)
               /\ \A k \in 1..Len(calls) :
                     /\ calls[k].name = NamesOf(frame[p].lookup.body)[k]
                     /\ calls[k].ok =>
                           SubSeq(out, RecordsBefore(calls, k) + 1,
                                  RecordsBefore(calls, k) + Len(calls[k].records))
                              = calls[k].records

C17_Witness ==
    \E p \in Threads :
        /\ AggDone(p) /\ frame[p].outcome = "ok"
        /\ frame[p].lookup.body = SixLocs
        /\ Len(frame[p].calls) = 6
        /\ frame[p].calls[1].records = <<RecB, RecC>>
        /\ ~frame[p].calls[2].ok
        /\ frame[p].calls[3].records = <<RecA>>
        /\ ~frame[p].calls[4].ok /\ ~frame[p].calls[5].ok
        /\ frame[p].calls[6].records = <<RecB, RecC>>
        /\ ret[p].body.locations = <<RecB, RecC, RecA, RecB, RecC>>

(* C18: a run of air_quality that goes upstream issues exactly one lookup  *)
(* call and at most 5 latest-readings calls, whatever the lookup returns.  *)
C18_AtMostFiveLatestCalls ==
    \A p \in Threads :
        (frame[p].op = "air_quality" /\ frame[p].outcome # "hit") =>
            /\ frame[p].lookups = 1
            /\ Len(frame[p].calls) <= MAX_STATIONS

(* ------------------------------ air_quality: what is cached ------------ *)

(* the run of thread p stored its result under its key *)
WroteEntry(p) ==
    /\ HistOf(frame[p].cache_key).n = frame[p].pre.nputs + 1
    /\ frame[p].cache_key \in DOMAIN CACHE
    /\ CACHE[frame[p].cache_key].data = ret[p].body

(* the cache is as the run of thread p found it *)
LeftCacheAlone(p) ==
    /\ HistOf(frame[p].cache_key).n = frame[p].pre.nputs
    /\ frame[p].cache_key \in DOMAIN CACHE <=> frame[p].pre.had
    /\ frame[p].pre.had => CACHE[frame[p].cache_key].data = frame[p].pre.data

AggWritesIffStationsFound(p) ==
    (AggDone(p) /\ frame[p].outcome # "hit") =>
        /\ frame[p].cache_key = CityKey(frame[p].city)
        /\ IF LookupSucceeded(frame[p]) /\ frame[p].lookup.body # <<>>
           THEN WroteEntry(p)
           ELSE LeftCacheAlone(p)

(* C19: air_quality writes a cache entry under the city's key exactly when *)
(* the lookup succeeded with a non-empty list, however many latest-        *)
(* readings calls failed; the not-found and the dummy outcome leave the    *)
(* cache unchanged; and a call for the same city less than TTL after a     *)
(* cached run stored its result returns that result, its last_updated      *)
(* included, with no upstream call.                                        *)
C19_CachedRunIsServed ==
    \A p \in Threads :
        /\ AggWritesIffStationsFound(p)
        /\ (AggDone(p) /\ frame[p].pre.had /\ frame[p].pre.age < CACHE_TTL) =>
              /\ ret[p] = Returned(frame[p].pre.data)
              /\ frame[p].lookups = 0
              /\ frame[p].calls = <<>>

(* ------------------------------ measurements: the cache key ------------ *)

(* the calls of the measurements endpoint for one station and parameter:   *)
(* their urls differ in the limit, their cache key does not                *)
MeasurementCalls == { r \in Requests : r.cache_key = "k1" }

(* C20: measurements caches under station and parameter only: less than    *)
(* TTL after a successful call stored its payload, a call for the same     *)
(* station and parameter returns that payload whatever its limit, and      *)
(* issues no upstream call.                                                *)
C20_LimitIgnoredWhileFresh ==
    \A p \in Threads, r \in MeasurementCalls :
        (/\ FetchDone(p)
         /\ frame[p].url = r.url
         /\ HistOf(r.cache_key).n >= 1
         /\ frame[p].pre.had /\ frame[p].pre.age < CACHE_TTL)
            => /\ frame[p].cache_key = r.cache_key
               /\ frame[p].upcalls = 0
               /\ ret[p] = Returned(frame[p].pre.data)

====
